---- MODULE Spec2Model ----
(***************************************************************************)
(* Model of the Dice.com automation scripts:                               *)
(*   scripts/apply_job.py   - one application run (login, eligibility      *)
(*                            check, Easy Apply wizard, exit status)       *)
(*   scripts/scrape_dice.py - one discovery run (scrape, dedup, append to  *)
(*                            the JOB_QUEUE sheet)                         *)
(* Strings are sequences of one-character strings so that strip(),         *)
(* lower(), splitlines() and the "in" substring test are computed as       *)
(* Python computes them.                                                   *)
(***************************************************************************)
EXTENDS Integers, Sequences, FiniteSets, TLC

VARIABLES
    pc,          \* position of the application run in apply_job.main
    driver,      \* "none" (driver = None), "live" (session open), "quit"
    quits,       \* number of driver.quit() calls
    url,         \* key of the page the browser is on (driver.current_url)
    section,     \* the "Job Details" section of the loaded job page
    overview,    \* value of get_overview_text (a string) at the last check
    loginRet,    \* return value of login: "none", "True", "False"
    eligRet,     \* return value of check_eligibility: "none", "True", "False"
    applyRet,    \* return value of apply_easy: "none", "True", "False"
    failStage,   \* where apply_easy raised: "none", "open", "submit_page", "submit"
    raised,      \* exception in flight or last caught: "none", "Timeout", ...
    caught,      \* TRUE once main's "except Exception" clause has run
    exitReq,     \* argument of the sys.exit call made, -1 before
    exitStatus,  \* exit status of the process, -1 while it runs
    summary,     \* summary line printed by main, "none" before
    applyLog,    \* exception printed by apply_easy's handler, "none" before
    clicks,      \* number of clicks dispatched per control
    screenshot,  \* TRUE once login_error.png was saved
    nextWait,    \* how the optional Next step ended: "none", "clicked", ...
    queue,       \* rows of the JOB_QUEUE sheet below the header
    wpc,         \* position of each discovery run (writer)
    filters,     \* filters still to scrape, per writer
    page,        \* next page number of the current filter, per writer
    all_jobs,    \* main's all_jobs, per writer
    scraped,     \* scrape_dice_jobs' all_jobs for the current filter, per writer
    existing,    \* existing_urls as read by save_to_job_queue, per writer
    new_jobs,    \* rows still to append, per writer
    failed,      \* pages of the current filter whose fetch raised, per writer
    queue0,      \* the queue as it was when save_to_job_queue was called
    batch,       \* the argument of the last save_to_job_queue call
    runs         \* number of discovery runs started (also the clock)

appVars == <<pc, driver, quits, url, section, overview, loginRet, eligRet,
             applyRet, failStage, raised, caught, exitReq, exitStatus,
             summary, applyLog, clicks, screenshot, nextWait>>
discVars == <<queue, wpc, filters, page, all_jobs, scraped, existing, new_jobs,
              failed, queue0, batch, runs>>
vars == <<pc, driver, quits, url, section, overview, loginRet, eligRet,
          applyRet, failStage, raised, caught, exitReq, exitStatus,
          summary, applyLog, clicks, screenshot, nextWait, queue, wpc, filters, page,
          all_jobs, scraped, existing, new_jobs, failed, queue0, batch, runs>>

----------------------------------------------------------------------------
(* Python string operations *)

Whitespace == {" ", "\t", "\n", "\r"}

LineBreaks == {"\n", "\r"}

UpperCase == <<"A","B","C","D","E","F","G","H","I","J","K","L","M",
               "N","O","P","Q","R","S","T","U","V","W","X","Y","Z">>

LowerCase == <<"a","b","c","d","e","f","g","h","i","j","k","l","m",
               "n","o","p","q","r","s","t","u","v","w","x","y","z">>

LowerChar(c) ==
    IF \E i \in 1..26 : UpperCase[i] = c
    THEN LowerCase[CHOOSE i \in 1..26 : UpperCase[i] = c]
    ELSE c

\* str.lower()
Lower(s) == [i \in 1..Len(s) |-> LowerChar(s[i])]

RECURSIVE LStrip(_)
LStrip(s) ==
    IF s # <<>> /\ s[1] \in Whitespace THEN LStrip(Tail(s)) ELSE s

RECURSIVE RStrip(_)
RStrip(s) ==
    IF s # <<>> /\ s[Len(s)] \in Whitespace
    THEN RStrip(SubSeq(s, 1, Len(s) - 1))
    ELSE s

\* str.strip()
Strip(s) == RStrip(LStrip(s))

\* sub in s
Contains(sub, s) ==
    \E i \in 1..(Len(s) - Len(sub) + 1) : SubSeq(s, i, i + Len(sub) - 1) = sub

\* s.startswith(prefix)
StartsWith(s, prefix) ==
    Len(s) >= Len(prefix) /\ SubSeq(s, 1, Len(prefix)) = prefix

\* str.splitlines(): "\n", "\r" and "\r\n" end a line; no empty last line
RECURSIVE SplitLines(_)
SplitLines(s) ==
    IF s = <<>> THEN <<>>
    ELSE LET brk  == {i \in 1..Len(s) : s[i] \in LineBreaks}
             k    == IF brk = {} THEN Len(s) + 1
                     ELSE CHOOSE i \in brk : \A j \in brk : i <= j
             skip == IF k < Len(s) /\ s[k] = "\r" /\ s[k + 1] = "\n"
                     THEN 2 ELSE 1
         IN  <<SubSeq(s, 1, k - 1)>> \o SplitLines(SubSeq(s, k + skip, Len(s)))

\* the rendered text of an element whose lines are ls, joined by sep
RECURSIVE JoinLines(_, _)
JoinLines(ls, sep) ==
    IF ls = <<>> THEN <<>>
    ELSE IF Len(ls) = 1 THEN ls[1]
    ELSE ls[1] \o sep \o JoinLines(Tail(ls), sep)

----------------------------------------------------------------------------
(* check_eligibility *)

C2C == <<"c","o","r","p"," ","t","o"," ","c","o","r","p">>

valid_terms ==
    << <<"c","o","n","t","r","a","c","t"," ","-"," ","3">>,
       <<"c","o","n","t","r","a","c","t"," ","-"," ","6">>,
       <<"c","o","n","t","r","a","c","t"," ","-"," ","9">>,
       <<"c","o","n","t","r","a","c","t"," ","-"," ","1","2">>,
       <<"c","o","n","t","r","a","c","t"," ","-"," ","i","n","d","e","p","e","n","d","e","n","t">> >>

strict_skip ==
    << <<"w","2">>,
       <<"c","o","n","t","r","a","c","t"," ","-"," ","w","2">>,
       <<"f","u","l","l"," ","t","i","m","e">>,
       <<"f","u","l","l","-","t","i","m","e">> >>

\* x in xs, for a list xs
InList(x, xs) == \E i \in 1..Len(xs) : xs[i] = x

\* overview_lines = [line.strip() for line in overview.splitlines()]
overview_lines(ov) ==
    LET ls == SplitLines(ov) IN [i \in 1..Len(ls) |-> Strip(ls[i])]

has_c2c_exact(lines) == InList(C2C, lines)

\* line 99
has_c2c(lines) == \E i \in 1..Len(lines) : Contains(C2C, lines[i])

has_valid_term_substr(lines) ==
    \E t \in 1..Len(valid_terms) :
        \E i \in 1..Len(lines) : Contains(valid_terms[t], lines[i])

\* lines 101-102
has_valid_term(lines) ==
    \E t \in 1..Len(valid_terms) : InList(valid_terms[t], lines)

\* lines 104-105
is_w2_only(lines) ==
    \E t \in 1..Len(strict_skip) : InList(strict_skip[t], lines)

\* the verdict computed from the overview text: TRUE is Eligible
check_eligibility(ov) ==
    LET lines == overview_lines(ov)
    IN  ~(is_w2_only(lines) /\ ~(has_c2c(lines) \/ has_valid_term(lines)))

\* section.text.strip().lower()
NormalizeCaseSensitive(text) == Strip(text)

Normalize(text) == Lower(Strip(text))

----------------------------------------------------------------------------
(* The pages the browser can be on *)

MaxLines == 3

\* lines a "Job Details" section can show, as rendered (any case, any
\* padding; the second one ends in a carriage return)
RawLines ==
    << <<"F","u","l","l","-","T","i","m","e">>,
       <<" "," ","f","u","l","l","-","t","i","m","e"," ","\t","\r">>,
       <<"c","o","n","t","r","a","c","t"," ","-"," ","w","2">>,
       <<"r","e","m","o","t","e">>,
       <<"c","o","r","p"," ","t","o"," ","c","o","r","p">>,
       <<" ","C","2","C"," ","/"," ","c","o","r","p"," ","t","o"," ","c","o","r","p"," ","o","k">>,
       <<"c","o","n","t","r","a","c","t"," ","-"," ","6">>,
       <<"C","o","n","t","r","a","c","t"," ","-"," ","6"," ","m","o","n","t","h","s">>,
       <<>> >>

\* the rendered text has one line feed between two lines
LineSep == <<"\n">>

LineLists == UNION {[1..n -> 1..Len(RawLines)] : n \in 0..MaxLines}

NoSection == [kind |-> "absent", lines |-> <<>>]

StaleSection == [kind |-> "stale", lines |-> <<>>]

Sections ==
    {NoSection, StaleSection} \cup
    {[kind |-> "present", lines |-> ls] : ls \in LineLists}

\* the lines of a section as character strings
SectionLines(sec) == [i \in 1..Len(sec.lines) |-> RawLines[sec.lines[i]]]

\* section.text
SectionText(sec) == JoinLines(SectionLines(sec), LineSep)

\* find_element raises when the section is absent, section.text when the
\* element went stale; both are swallowed by the bare except
get_overview_text(sec) ==
    IF sec.kind = "present" THEN Normalize(SectionText(sec)) ELSE <<>>

\* get_overview_text and check_eligibility on every page, computed once
OverviewOf == [sec \in Sections |-> get_overview_text(sec)]

EligibleOn == [sec \in Sections |-> check_eligibility(OverviewOf[sec])]

UrlText ==
    [blank        |-> <<"d","a","t","a",":",",">>,
     login        |-> <<"h","t","t","p","s",":","/","/","w","w","w",".","d","i","c","e",".","c","o","m","/","d","a","s","h","b","o","a","r","d","/","l","o","g","i","n">>,
     dashboard    |-> <<"h","t","t","p","s",":","/","/","w","w","w",".","d","i","c","e",".","c","o","m","/","d","a","s","h","b","o","a","r","d">>,
     jobs         |-> <<"h","t","t","p","s",":","/","/","w","w","w",".","d","i","c","e",".","c","o","m","/","j","o","b","s">>,
     home         |-> <<"h","t","t","p","s",":","/","/","w","w","w",".","d","i","c","e",".","c","o","m","/","h","o","m","e","-","f","e","e","d">>,
     job          |-> <<"h","t","t","p","s",":","/","/","w","w","w",".","d","i","c","e",".","c","o","m","/","j","o","b","-","d","e","t","a","i","l","/","7">>,
     apply        |-> <<"h","t","t","p","s",":","/","/","w","w","w",".","d","i","c","e",".","c","o","m","/","j","o","b","-","d","e","t","a","i","l","/","7","/","a","p","p","l","y">>,
     apply_submit |-> <<"h","t","t","p","s",":","/","/","w","w","w",".","d","i","c","e",".","c","o","m","/","j","o","b","-","d","e","t","a","i","l","/","7","/","a","p","p","l","y","/","s","u","b","m","i","t">>]

DASHBOARD == <<"d","a","s","h","b","o","a","r","d">>

JOBS == <<"j","o","b","s">>

APPLY == <<"/","a","p","p","l","y">>

APPLY_SUBMIT == <<"/","a","p","p","l","y","/","s","u","b","m","i","t">>

\* EC.url_contains(fragment) on the page the browser is on
url_contains(u, fragment) == Contains(fragment, UrlText[u])

\* pages the browser can be on after the sign-in click
AfterSignIn == {"login", "dashboard", "jobs", "home"}

\* pages the browser can be on while the wizard is open
AfterApplyClick == {"job", "apply", "apply_submit"}

Controls == {"continue", "signin", "apply", "next", "submit"}

----------------------------------------------------------------------------
(* apply_job.py: one application run *)

AppInit ==
    /\ pc = "start"
    /\ driver = "none"
    /\ quits = 0
    /\ url = "blank"
    /\ section = NoSection
    /\ overview = <<>>
    /\ loginRet = "none"
    /\ eligRet = "none"
    /\ applyRet = "none"
    /\ failStage = "none"
    /\ raised = "none"
    /\ caught = FALSE
    /\ exitReq = -1
    /\ exitStatus = -1
    /\ summary = "none"
    /\ applyLog = "none"
    /\ clicks = [c \in Controls |-> 0]
    /\ screenshot = FALSE
    /\ nextWait = "none"

HandlerMatchesAll(e) == TRUE

\* line 189: "except Exception" does not match SystemExit
HandlerMatches(e) == e # "SystemExit"

\* an exception leaves the body of main's try statement: it reaches the
\* except clause if that matches it, and the finally clause otherwise
RaiseInMain(e) ==
    /\ raised' = e
    /\ pc' = IF HandlerMatches(e) THEN "except" ELSE "finally"

\* sys.exit(n) raises SystemExit(n)
sys_exit(n) ==
    /\ exitReq' = n
    /\ RaiseInMain("SystemExit")

\* a Python bool as printed
Bool(b) == IF b THEN "True" ELSE "False"

Click(c) == clicks' = [clicks EXCEPT ![c] = @ + 1]

\* line 165: driver = init_driver()
InitDriver ==
    /\ pc = "start"
    /\ \/ /\ driver' = "live"
          /\ pc' = "login_get"
          /\ UNCHANGED raised
       \/ /\ RaiseInMain("WebDriverError")
          /\ UNCHANGED driver
    /\ UNCHANGED <<quits, url, section, overview, loginRet, eligRet, applyRet,
                   failStage, caught, exitReq, exitStatus, summary, applyLog,
                   clicks, screenshot, nextWait>>
    /\ UNCHANGED discVars

\* line 50: driver.get(login page), outside login's try statement
LoginGet ==
    /\ pc = "login_get"
    /\ \/ /\ url' = "login"
          /\ pc' = "login_email"
          /\ UNCHANGED raised
       \/ /\ RaiseInMain("WebDriverError")
          /\ UNCHANGED url
    /\ UNCHANGED <<driver, quits, section, overview, loginRet, eligRet,
                   applyRet, failStage, caught, exitReq, exitStatus, summary,
                   applyLog, clicks, screenshot, nextWait>>
    /\ UNCHANGED discVars

\* lines 82-84: login's handler; no screenshot is taken here
LoginExcept(e) ==
    /\ raised' = e
    /\ loginRet' = "False"
    /\ pc' = "login_done"
    /\ UNCHANGED <<url, clicks, screenshot>>

\* lines 55-58: wait for the email field and type the address
LoginEmail ==
    /\ pc = "login_email"
    /\ \/ /\ pc' = "login_continue"
          /\ UNCHANGED <<raised, loginRet, url, clicks, screenshot>>
       \/ LoginExcept("Timeout")
    /\ UNCHANGED <<driver, quits, section, overview, eligRet, applyRet,
                   failStage, caught, exitReq, exitStatus, summary, applyLog, nextWait>>
    /\ UNCHANGED discVars

\* lines 60-62: wait for the Continue button and click it
LoginContinue ==
    /\ pc = "login_continue"
    /\ \/ /\ Click("continue")
          /\ pc' = "login_password"
          /\ UNCHANGED <<raised, loginRet, url, screenshot>>
       \/ LoginExcept("Timeout")
    /\ UNCHANGED <<driver, quits, section, overview, eligRet, applyRet,
                   failStage, caught, exitReq, exitStatus, summary, applyLog, nextWait>>
    /\ UNCHANGED discVars

\* lines 65-68: wait for the password field and type the password
LoginPassword ==
    /\ pc = "login_password"
    /\ \/ /\ pc' = "login_signin"
          /\ UNCHANGED <<raised, loginRet, url, clicks, screenshot>>
       \/ LoginExcept("Timeout")
    /\ UNCHANGED <<driver, quits, section, overview, eligRet, applyRet,
                   failStage, caught, exitReq, exitStatus, summary, applyLog, nextWait>>
    /\ UNCHANGED discVars

\* line 74: "dashboard" in driver.current_url or "jobs" in driver.current_url
LoggedIn(u) == url_contains(u, DASHBOARD) \/ url_contains(u, JOBS)

\* lines 70-80: wait for Sign In, click it, then look at the URL
LoginSignIn ==
    /\ pc = "login_signin"
    /\ \/ \E u \in AfterSignIn :
            /\ Click("signin")
            /\ url' = u
            /\ loginRet' = Bool(LoggedIn(u))
            /\ screenshot' = ~LoggedIn(u)
            /\ pc' = "login_done"
            /\ UNCHANGED raised
       \/ LoginExcept("Timeout")
    /\ UNCHANGED <<driver, quits, section, overview, eligRet, applyRet,
                   failStage, caught, exitReq, exitStatus, summary, applyLog, nextWait>>
    /\ UNCHANGED discVars

LoginDoneIgnored ==
    /\ pc = "login_done"
    /\ pc' = "open_job"
    /\ UNCHANGED <<summary, exitReq, raised>>
    /\ UNCHANGED <<driver, quits, url, section, overview, loginRet, eligRet,
                   applyRet, failStage, caught, exitStatus, applyLog, clicks,
                   screenshot, nextWait>>
    /\ UNCHANGED discVars

\* lines 167-169: if not login(...): sys.exit(1)
LoginDone ==
    /\ pc = "login_done"
    /\ IF loginRet = "False"
       THEN /\ summary' = "FAILED: Login failed"
            /\ sys_exit(1)
       ELSE /\ pc' = "open_job"
            /\ UNCHANGED <<summary, exitReq, raised>>
    /\ UNCHANGED <<driver, quits, url, section, overview, loginRet, eligRet,
                   applyRet, failStage, caught, exitStatus, applyLog, clicks,
                   screenshot, nextWait>>
    /\ UNCHANGED discVars

\* lines 172-173: driver.get(job_url)
OpenJob ==
    /\ pc = "open_job"
    /\ \/ \E sec \in Sections :
            /\ url' = "job"
            /\ section' = sec
            /\ pc' = "scroll"
            /\ UNCHANGED raised
       \/ /\ RaiseInMain("WebDriverError")
          /\ UNCHANGED <<url, section>>
    /\ UNCHANGED <<driver, quits, overview, loginRet, eligRet, applyRet,
                   failStage, caught, exitReq, exitStatus, summary, applyLog,
                   clicks, screenshot, nextWait>>
    /\ UNCHANGED discVars

\* lines 175-176: driver.execute_script("window.scrollBy(0, 400)")
Scroll ==
    /\ pc = "scroll"
    /\ \/ /\ pc' = "check"
          /\ UNCHANGED raised
       \/ RaiseInMain("WebDriverError")
    /\ UNCHANGED <<driver, quits, url, section, overview, loginRet, eligRet,
                   applyRet, failStage, caught, exitReq, exitStatus, summary,
                   applyLog, clicks, screenshot, nextWait>>
    /\ UNCHANGED discVars

CheckEligibilityNoCatch ==
    /\ pc = "check"
    /\ IF section.kind # "present"
       THEN /\ RaiseInMain("NoSuchElement")
            /\ UNCHANGED <<overview, eligRet, summary, exitReq>>
       ELSE /\ overview' = OverviewOf[section]
            /\ eligRet' = Bool(EligibleOn[section])
            /\ IF eligRet' = "True"
               THEN /\ pc' = "apply_open"
                    /\ UNCHANGED <<summary, exitReq, raised>>
               ELSE /\ summary' = "SKIPPED: Not eligible"
                    /\ sys_exit(2)
    /\ UNCHANGED <<driver, quits, url, section, loginRet, applyRet, failStage,
                   caught, exitStatus, applyLog, clicks, screenshot, nextWait>>
    /\ UNCHANGED discVars

CheckEligibilityNoExit ==
    /\ pc = "check"
    /\ overview' = OverviewOf[section]
    /\ eligRet' = Bool(EligibleOn[section])
    /\ summary' = IF eligRet' = "True" THEN summary ELSE "SKIPPED: Not eligible"
    /\ pc' = "apply_open"
    /\ UNCHANGED <<driver, quits, url, section, loginRet, applyRet, failStage,
                   caught, exitStatus, applyLog, clicks, screenshot, nextWait,
                   exitReq, raised>>
    /\ UNCHANGED discVars

\* lines 178-180 with 94-112: if not check_eligibility(driver): sys.exit(2)
CheckEligibility ==
    /\ pc = "check"
    /\ overview' = OverviewOf[section]
    /\ eligRet' = Bool(EligibleOn[section])
    /\ IF eligRet' = "True"
       THEN /\ pc' = "apply_open"
            /\ UNCHANGED <<summary, exitReq, raised>>
       ELSE /\ summary' = "SKIPPED: Not eligible"
            /\ sys_exit(2)
    /\ UNCHANGED <<driver, quits, url, section, loginRet, applyRet, failStage,
                   caught, exitStatus, applyLog, clicks, screenshot, nextWait>>
    /\ UNCHANGED discVars

\* the exceptions the waits and clicks of each stage of apply_easy can raise
StageExceptions ==
    [open        |-> {"Timeout", "ClickError"},
     submit_page |-> {"Timeout"},
     submit      |-> {"Timeout", "ClickError"}]

ApplyExceptPropagate(stage, e) ==
    /\ failStage' = stage
    /\ RaiseInMain(e)
    /\ UNCHANGED <<applyLog, applyRet>>

\* lines 144-146: apply_easy's handler prints the exception, returns False
ApplyExcept(stage, e) ==
    /\ failStage' = stage
    /\ applyLog' = e
    /\ raised' = e
    /\ applyRet' = "False"
    /\ pc' = "apply_done"

ApplyOpenSoft ==
    /\ pc = "apply_open"
    /\ \/ /\ Click("apply")
          /\ pc' = "apply_url"
          /\ UNCHANGED <<failStage, applyLog, raised, applyRet>>
       \/ /\ pc' = "apply_url"
          /\ UNCHANGED <<failStage, applyLog, raised, applyRet, clicks>>
       \/ /\ ApplyExcept("open", "ClickError")
          /\ UNCHANGED clicks
    /\ UNCHANGED <<driver, quits, url, section, overview, loginRet, eligRet,
                   caught, exitReq, exitStatus, summary, screenshot, nextWait>>
    /\ UNCHANGED discVars

\* lines 117-120: wait for the apply button, scroll to it and click it
ApplyOpen ==
    /\ pc = "apply_open"
    /\ \/ /\ Click("apply")
          /\ pc' = "apply_url"
          /\ UNCHANGED <<failStage, applyLog, raised, applyRet>>
       \/ /\ \E e \in StageExceptions["open"] : ApplyExcept("open", e)
          /\ UNCHANGED clicks
    /\ UNCHANGED <<driver, quits, url, section, overview, loginRet, eligRet,
                   caught, exitReq, exitStatus, summary, screenshot, nextWait>>
    /\ UNCHANGED discVars

WaitApplyUrlLenient ==
    /\ pc = "apply_url"
    /\ \E u \in AfterApplyClick :
        /\ url' = u
        /\ pc' = "step_next"
        /\ UNCHANGED <<failStage, applyLog, raised, applyRet>>
    /\ UNCHANGED <<driver, quits, section, overview, loginRet, eligRet, caught,
                   exitReq, exitStatus, summary, clicks, screenshot, nextWait>>
    /\ UNCHANGED discVars

\* lines 122-123: WebDriverWait(driver, 10).until(EC.url_contains("/apply"))
WaitApplyUrl ==
    /\ pc = "apply_url"
    /\ \E u \in AfterApplyClick :
        /\ url' = u
        /\ IF url_contains(u, APPLY)
           THEN /\ pc' = "step_next"
                /\ UNCHANGED <<failStage, applyLog, raised, applyRet>>
           ELSE ApplyExcept("open", "Timeout")
    /\ UNCHANGED <<driver, quits, section, overview, loginRet, eligRet, caught,
                   exitReq, exitStatus, summary, clicks, screenshot, nextWait>>
    /\ UNCHANGED discVars

StepNextStrict ==
    /\ pc = "step_next"
    /\ \/ /\ Click("next")
          /\ nextWait' = "clicked"
          /\ pc' = "submit_url"
          /\ UNCHANGED <<applyRet, failStage, raised, applyLog>>
       \/ /\ nextWait' \in {"timeout", "click_error"}
          /\ ApplyExcept("next", "Timeout")
          /\ UNCHANGED clicks
    /\ UNCHANGED <<driver, quits, url, section, overview, loginRet, eligRet,
                   caught, exitReq, exitStatus, summary, screenshot>>
    /\ UNCHANGED discVars

\* lines 125-130: the optional Next button; every failure is swallowed
StepNext ==
    /\ pc = "step_next"
    /\ \/ /\ Click("next")
          /\ nextWait' = "clicked"
       \/ /\ nextWait' \in {"timeout", "click_error"}
          /\ UNCHANGED clicks
    /\ pc' = "submit_url"
    /\ UNCHANGED <<driver, quits, url, section, overview, loginRet, eligRet,
                   applyRet, failStage, raised, caught, exitReq, exitStatus,
                   summary, applyLog, screenshot>>
    /\ UNCHANGED discVars

\* lines 132-133: WebDriverWait(driver, 10).until(EC.url_contains("/apply/submit"))
WaitSubmitUrl ==
    /\ pc = "submit_url"
    /\ \E u \in AfterApplyClick :
        /\ url' = u
        /\ IF url_contains(u, APPLY_SUBMIT)
           THEN /\ pc' = "submit"
                /\ UNCHANGED <<failStage, applyLog, raised, applyRet>>
           ELSE ApplyExcept("submit_page", "Timeout")
    /\ UNCHANGED <<driver, quits, section, overview, loginRet, eligRet, caught,
                   exitReq, exitStatus, summary, clicks, screenshot, nextWait>>
    /\ UNCHANGED discVars

SubmitRetried ==
    /\ pc = "submit"
    /\ \/ /\ Click("submit")
          /\ applyRet' = "True"
          /\ pc' = "apply_done"
          /\ UNCHANGED <<failStage, applyLog, raised>>
       \/ /\ clicks' = [clicks EXCEPT !["submit"] = @ + 2]
          /\ applyRet' = "True"
          /\ pc' = "apply_done"
          /\ UNCHANGED <<failStage, applyLog, raised>>
       \/ /\ ApplyExcept("submit", "Timeout")
          /\ UNCHANGED clicks
    /\ UNCHANGED <<driver, quits, url, section, overview, loginRet, eligRet,
                   caught, exitReq, exitStatus, summary, screenshot, nextWait>>
    /\ UNCHANGED discVars

\* lines 135-142: wait for the Submit button, click it, return True
Submit ==
    /\ pc = "submit"
    /\ \/ /\ Click("submit")
          /\ applyRet' = "True"
          /\ pc' = "apply_done"
          /\ UNCHANGED <<failStage, applyLog, raised>>
       \/ /\ \E e \in StageExceptions["submit"] : ApplyExcept("submit", e)
          /\ UNCHANGED clicks
    /\ UNCHANGED <<driver, quits, url, section, overview, loginRet, eligRet,
                   caught, exitReq, exitStatus, summary, screenshot, nextWait>>
    /\ UNCHANGED discVars

\* lines 183 and 186: the summary line for apply_easy's return value
SummaryOfApply(ret) ==
    IF ret = "True" THEN "SUCCESS: Applied" ELSE "FAILED: Could not apply"

\* lines 184 and 187: the exit status for apply_easy's return value
ExitOfApply(ret) == IF ret = "True" THEN 0 ELSE 1

\* lines 182-187: the summary line and exit status after apply_easy
ApplyDone ==
    /\ pc = "apply_done"
    /\ summary' = SummaryOfApply(applyRet)
    /\ sys_exit(ExitOfApply(applyRet))
    /\ UNCHANGED <<driver, quits, url, section, overview, loginRet, eligRet,
                   applyRet, failStage, caught, exitStatus, applyLog, clicks,
                   screenshot, nextWait>>
    /\ UNCHANGED discVars

ExceptAndQuit ==
    /\ pc = "except"
    /\ caught' = TRUE
    /\ summary' = "FAILED: <exception>"
    /\ exitReq' = 1
    /\ raised' = "SystemExit"
    /\ driver' = IF driver = "none" THEN "none" ELSE "quit"
    /\ quits' = IF driver = "none" THEN quits ELSE quits + 1
    /\ pc' = "finally"
    /\ UNCHANGED <<url, section, overview, loginRet, eligRet,
                   applyRet, failStage, exitStatus, applyLog, clicks,
                   screenshot, nextWait>>
    /\ UNCHANGED discVars

\* lines 189-191: print the exception, sys.exit(1)
Except ==
    /\ pc = "except"
    /\ caught' = TRUE
    /\ summary' = "FAILED: <exception>"
    /\ exitReq' = 1
    /\ raised' = "SystemExit"
    /\ pc' = "finally"
    /\ UNCHANGED <<driver, quits, url, section, overview, loginRet, eligRet,
                   applyRet, failStage, exitStatus, applyLog, clicks,
                   screenshot, nextWait>>
    /\ UNCHANGED discVars

\* lines 193-195: if driver: driver.quit(); then the process exits
Finally ==
    /\ pc = "finally"
    /\ IF driver # "none"
       THEN /\ driver' = "quit"
            /\ quits' = quits + 1
       ELSE UNCHANGED <<driver, quits>>
    /\ exitStatus' = IF raised = "SystemExit" THEN exitReq ELSE 1
    /\ pc' = "exited"
    /\ UNCHANGED <<url, section, overview, loginRet, eligRet, applyRet,
                   failStage, raised, caught, exitReq, summary, applyLog,
                   clicks, screenshot, nextWait>>
    /\ UNCHANGED discVars

AppNext ==
    \/ InitDriver
    \/ LoginGet
    \/ LoginEmail
    \/ LoginContinue
    \/ LoginPassword
    \/ LoginSignIn
    \/ LoginDone
    \/ OpenJob
    \/ Scroll
    \/ CheckEligibility
    \/ ApplyOpen
    \/ WaitApplyUrl
    \/ StepNext
    \/ WaitSubmitUrl
    \/ Submit
    \/ ApplyDone
    \/ Except
    \/ Finally

----------------------------------------------------------------------------
(* scrape_dice.py: discovery runs *)

Writers == {1, 2}

MaxRuns == 2

\* max_pages of scrape_dice_jobs (5 in main's call), bounded here
max_pages == 2

HTTP == <<"h","t","t","p">>

JOB_DETAIL == <<"/","j","o","b","-","d","e","t","a","i","l","/">>

DICE == <<"h","t","t","p","s",":","/","/","w","w","w",".","d","i","c","e",".","c","o","m">>

\* href attributes of job cards; <<>> stands for a missing href
Hrefs ==
    [relA  |-> <<"/","j","o","b","-","d","e","t","a","i","l","/","a">>,
     absA  |-> <<"h","t","t","p","s",":","/","/","w","w","w",".","d","i","c","e",".","c","o","m","/","j","o","b","-","d","e","t","a","i","l","/","a">>,
     relB  |-> <<"/","j","o","b","-","d","e","t","a","i","l","/","b">>,
     other |-> <<"/","c","o","m","p","a","n","y","/","c">>,
     none  |-> <<>>]

\* a job card link: its href and the text of its job-title span ("" if none)
Link(h, t) == [href |-> Hrefs[h], title |-> t]

\* what one page fetch can give: an error, or the job card links of the page
PageResults ==
    { "error",
      <<>>,
      <<Link("relA", "Dev")>>,
      <<Link("other", "Ads"), Link("absA", ""), Link("relB", "Ops")>>,
      <<Link("none", "Dev"), Link("relB", "Ops")>> }

Filter(k) == [Keyword |-> k, Location |-> "Remote", PostedDate |-> "ONE"]

\* what the JOB_FILTERS sheet can hold
FilterLists ==
    { <<Filter("python")>>,
      <<Filter("python"), Filter(""), Filter("java")>> }

\* line 49
full_url(href) == IF ~StartsWith(href, HTTP) THEN DICE \o href ELSE href

\* lines 46-60: the jobs appended for the links of one page
RECURSIVE JobsOfLinks(_, _, _)
JobsOfLinks(links, keyword, now) ==
    IF links = <<>> THEN <<>>
    ELSE LET l == Head(links)
         IN  (IF l.href # <<>> /\ Contains(JOB_DETAIL, l.href)
              THEN << [job_url       |-> full_url(l.href),
                       job_title     |-> IF l.title # "" THEN l.title
                                         ELSE "Unknown",
                       keyword       |-> keyword,
                       discovered_at |-> now,
                       status        |-> "Pending"] >>
              ELSE <<>>)
             \o JobsOfLinks(Tail(links), keyword, now)

Urls(rows) == {rows[i].job_url : i \in 1..Len(rows)}

dict_values_all(jobs) == jobs

\* line 109: {job['job_url']: job for job in all_jobs}.values()
\* a key keeps the position of its first job and the value of its last
dict_values(jobs) ==
    LET first == {i \in 1..Len(jobs) :
                    \A j \in 1..(i - 1) : jobs[j].job_url # jobs[i].job_url}
        last(i) == CHOOSE j \in i..Len(jobs) :
                     /\ jobs[j].job_url = jobs[i].job_url
                     /\ \A k \in (j + 1)..Len(jobs) :
                          jobs[k].job_url # jobs[i].job_url
        RECURSIVE Build(_)
        Build(i) == IF i > Len(jobs) THEN <<>>
                    ELSE (IF i \in first THEN <<jobs[last(i)]>> ELSE <<>>)
                         \o Build(i + 1)
    IN  Build(1)

\* rows the JOB_QUEUE sheet can hold before the first run
InitQueues ==
    { <<>>,
      << [job_url |-> full_url(Hrefs["relA"]), job_title |-> "Dev",
          keyword |-> "python", discovered_at |-> 0, status |-> "Applied"] >> }

DiscIdle ==
    /\ wpc = [w \in Writers |-> "idle"]
    /\ filters = [w \in Writers |-> <<>>]
    /\ page = [w \in Writers |-> 0]
    /\ all_jobs = [w \in Writers |-> <<>>]
    /\ scraped = [w \in Writers |-> <<>>]
    /\ existing = [w \in Writers |-> {}]
    /\ new_jobs = [w \in Writers |-> <<>>]
    /\ failed = [w \in Writers |-> {}]
    /\ queue0 = [w \in Writers |-> <<>>]
    /\ batch = [w \in Writers |-> <<>>]
    /\ runs = 0

\* lines 93-98: read_job_filters(); one writer at a time
StartRun(w) ==
    /\ wpc[w] = "idle"
    /\ \A v \in Writers : wpc[v] = "idle"
    /\ runs < MaxRuns
    /\ runs' = runs + 1
    /\ \E fl \in FilterLists : filters' = [filters EXCEPT ![w] = fl]
    /\ all_jobs' = [all_jobs EXCEPT ![w] = <<>>]
    /\ wpc' = [wpc EXCEPT ![w] = "filter"]
    /\ UNCHANGED <<queue, page, scraped, existing, new_jobs, failed, queue0,
                   batch>>
    /\ UNCHANGED appVars

\* lines 100-106: the next filter row; a row without keyword is skipped
NextFilter(w) ==
    /\ wpc[w] = "filter"
    /\ filters[w] # <<>>
    /\ IF Head(filters[w]).Keyword # ""
       THEN /\ page' = [page EXCEPT ![w] = 1]
            /\ scraped' = [scraped EXCEPT ![w] = <<>>]
            /\ wpc' = [wpc EXCEPT ![w] = "page"]
            /\ UNCHANGED filters
       ELSE /\ filters' = [filters EXCEPT ![w] = Tail(@)]
            /\ UNCHANGED <<page, scraped, wpc>>
    /\ UNCHANGED <<queue, all_jobs, existing, new_jobs, failed, queue0, batch,
                   runs>>
    /\ UNCHANGED appVars

FetchPageAbort(w) ==
    /\ wpc[w] = "page"
    /\ page[w] <= max_pages
    /\ \E r \in PageResults :
         IF r = "error"
         THEN /\ failed' = [failed EXCEPT ![w] = @ \cup {page[w]}]
              /\ page' = [page EXCEPT ![w] = max_pages + 1]
              /\ UNCHANGED scraped
         ELSE /\ scraped' = [scraped EXCEPT ![w] =
                     @ \o JobsOfLinks(r, Head(filters[w]).Keyword, runs)]
              /\ page' = [page EXCEPT ![w] = @ + 1]
              /\ UNCHANGED failed
    /\ UNCHANGED <<queue, wpc, filters, all_jobs, existing, new_jobs, queue0,
                   batch, runs>>
    /\ UNCHANGED appVars

\* lines 36-65: fetch and parse one page; an error is printed and swallowed
FetchPage(w) ==
    /\ wpc[w] = "page"
    /\ page[w] <= max_pages
    /\ \E r \in PageResults :
         IF r = "error"
         THEN /\ failed' = [failed EXCEPT ![w] = @ \cup {page[w]}]
              /\ UNCHANGED scraped
         ELSE /\ scraped' = [scraped EXCEPT ![w] =
                     @ \o JobsOfLinks(r, Head(filters[w]).Keyword, runs)]
              /\ UNCHANGED failed
    /\ page' = [page EXCEPT ![w] = @ + 1]
    /\ UNCHANGED <<queue, wpc, filters, all_jobs, existing, new_jobs, queue0,
                   batch, runs>>
    /\ UNCHANGED appVars

\* lines 67 and 107: return all_jobs; all_jobs.extend(jobs)
EndFilter(w) ==
    /\ wpc[w] = "page"
    /\ page[w] > max_pages
    /\ all_jobs' = [all_jobs EXCEPT ![w] = @ \o scraped[w]]
    /\ filters' = [filters EXCEPT ![w] = Tail(@)]
    /\ failed' = [failed EXCEPT ![w] = {}]
    /\ wpc' = [wpc EXCEPT ![w] = "filter"]
    /\ UNCHANGED <<queue, page, scraped, existing, new_jobs, queue0, batch,
                   runs>>
    /\ UNCHANGED appVars

CallSaveNoDedup(w) ==
    /\ wpc[w] = "filter"
    /\ filters[w] = <<>>
    /\ batch' = [batch EXCEPT ![w] = all_jobs[w]]
    /\ queue0' = [queue0 EXCEPT ![w] = queue]
    /\ wpc' = [wpc EXCEPT ![w] = IF batch'[w] = <<>> THEN "done" ELSE "read"]
    /\ UNCHANGED <<queue, filters, page, all_jobs, scraped, existing, new_jobs,
                   failed, runs>>
    /\ UNCHANGED appVars

\* lines 109-115 and 70-72: dedup the batch, call save_to_job_queue
CallSave(w) ==
    /\ wpc[w] = "filter"
    /\ filters[w] = <<>>
    /\ batch' = [batch EXCEPT ![w] = dict_values(all_jobs[w])]
    /\ queue0' = [queue0 EXCEPT ![w] = queue]
    /\ wpc' = [wpc EXCEPT ![w] = IF batch'[w] = <<>> THEN "done" ELSE "read"]
    /\ UNCHANGED <<queue, filters, page, all_jobs, scraped, existing, new_jobs,
                   failed, runs>>
    /\ UNCHANGED appVars

NewJobsAll(jobs, seen) == jobs

\* line 81: [job for job in jobs if job['job_url'] not in existing_urls]
NewJobs(jobs, seen) ==
    SelectSeq(jobs, LAMBDA job : job.job_url \notin seen)

\* lines 74-85: read the sheet, keep the jobs whose url is not in it
ReadQueue(w) ==
    /\ wpc[w] = "read"
    /\ existing' = [existing EXCEPT ![w] = Urls(queue)]
    /\ new_jobs' = [new_jobs EXCEPT ![w] = NewJobs(batch[w], existing'[w])]
    /\ queue0' = [queue0 EXCEPT ![w] = queue]
    /\ wpc' = [wpc EXCEPT ![w] = IF new_jobs'[w] = <<>> THEN "done"
                                 ELSE "append"]
    /\ UNCHANGED <<queue, filters, page, all_jobs, scraped, failed, batch,
                   runs>>
    /\ UNCHANGED appVars

AppendRowOnTop(w) ==
    /\ wpc[w] = "append"
    /\ queue' = <<Head(new_jobs[w])>> \o queue
    /\ new_jobs' = [new_jobs EXCEPT ![w] = Tail(@)]
    /\ wpc' = [wpc EXCEPT ![w] = IF new_jobs'[w] = <<>> THEN "done"
                                 ELSE "append"]
    /\ UNCHANGED <<filters, page, all_jobs, scraped, existing, failed, queue0,
                   batch, runs>>
    /\ UNCHANGED appVars

\* lines 87-88: sheet.append_row(...) for the next new job
AppendRow(w) ==
    /\ wpc[w] = "append"
    /\ queue' = Append(queue, Head(new_jobs[w]))
    /\ new_jobs' = [new_jobs EXCEPT ![w] = Tail(@)]
    /\ wpc' = [wpc EXCEPT ![w] = IF new_jobs'[w] = <<>> THEN "done"
                                 ELSE "append"]
    /\ UNCHANGED <<filters, page, all_jobs, scraped, existing, failed, queue0,
                   batch, runs>>
    /\ UNCHANGED appVars

\* line 116: the run is over and its process ends; its locals are gone
EndRun(w) ==
    /\ wpc[w] = "done"
    /\ wpc' = [wpc EXCEPT ![w] = "idle"]
    /\ filters' = [filters EXCEPT ![w] = <<>>]
    /\ page' = [page EXCEPT ![w] = 0]
    /\ all_jobs' = [all_jobs EXCEPT ![w] = <<>>]
    /\ scraped' = [scraped EXCEPT ![w] = <<>>]
    /\ existing' = [existing EXCEPT ![w] = {}]
    /\ new_jobs' = [new_jobs EXCEPT ![w] = <<>>]
    /\ queue0' = [queue0 EXCEPT ![w] = <<>>]
    /\ batch' = [batch EXCEPT ![w] = <<>>]
    /\ UNCHANGED <<queue, failed, runs>>
    /\ UNCHANGED appVars

----------------------------------------------------------------------------
(* Specifications *)

\* one application run
Init ==
    /\ AppInit
    /\ DiscIdle
    /\ queue = <<>>

Next == AppNext

Spec == Init /\ [][Next]_vars

\* every wait of the run is bounded, so the run always takes its next step
FairSpec == Spec /\ WF_vars(Next)

\* discovery runs, one writer at a time
DiscInit ==
    /\ AppInit
    /\ DiscIdle
    /\ queue \in InitQueues

DiscNext ==
    \E w \in Writers :
        \/ StartRun(w)
        \/ NextFilter(w)
        \/ FetchPage(w)
        \/ EndFilter(w)
        \/ CallSave(w)
        \/ ReadQueue(w)
        \/ AppendRow(w)
        \/ EndRun(w)

DiscSpec == DiscInit /\ [][DiscNext]_vars

\* what a run started at time now can have scraped for the one filter
\* "python" when it reaches line 109: the jobs of two pages that did not fail
ConcScraped(now) ==
    LET pages == {r \in PageResults : r # "error"}
    IN  { JobsOfLinks(r1, "python", now) \o JobsOfLinks(r2, "python", now) :
            r1 \in pages, r2 \in pages }

\* two discovery runs at once, both done with scraping (line 107) and about
\* to dedup their batch and save it; run w was started at time w
ConcInit ==
    /\ AppInit
    /\ queue \in InitQueues
    /\ wpc = [w \in Writers |-> "filter"]
    /\ filters = [w \in Writers |-> <<>>]
    /\ page = [w \in Writers |-> max_pages + 1]
    /\ all_jobs \in [Writers -> UNION {ConcScraped(w) : w \in Writers}]
    /\ \A w \in Writers : all_jobs[w] \in ConcScraped(w)
    /\ scraped = all_jobs
    /\ existing = [w \in Writers |-> {}]
    /\ new_jobs = [w \in Writers |-> <<>>]
    /\ failed = [w \in Writers |-> {}]
    /\ queue0 = [w \in Writers |-> <<>>]
    /\ batch = [w \in Writers |-> <<>>]
    /\ runs = Cardinality(Writers)

\* lines 109-115 and 69-90 of each run, interleaved in any order
ConcNext ==
    \E w \in Writers :
        \/ CallSave(w)
        \/ ReadQueue(w)
        \/ AppendRow(w)

ConcSpec == ConcInit /\ [][ConcNext]_vars

----------------------------------------------------------------------------
(* Properties of check_eligibility *)

\* the lines a section can show, each lower-cased and trimmed
NormLines == [n \in 1..Len(RawLines) |-> Strip(Lower(RawLines[n]))]

ClaimValidTerms ==
    { <<"c","o","n","t","r","a","c","t"," ","-"," ","3">>,
      <<"c","o","n","t","r","a","c","t"," ","-"," ","6">>,
      <<"c","o","n","t","r","a","c","t"," ","-"," ","9">>,
      <<"c","o","n","t","r","a","c","t"," ","-"," ","1","2">>,
      <<"c","o","n","t","r","a","c","t"," ","-"," ","i","n","d","e","p","e","n","d","e","n","t">> }

ClaimW2Only ==
    { <<"w","2">>,
      <<"c","o","n","t","r","a","c","t"," ","-"," ","w","2">>,
      <<"f","u","l","l"," ","t","i","m","e">>,
      <<"f","u","l","l","-","t","i","m","e">> }

FULL_TIME == <<"f","u","l","l","-","t","i","m","e">>

CORP_TO_CORP == <<"c","o","r","p"," ","t","o"," ","c","o","r","p">>

\* the lines that contain "corp to corp" somewhere
C2CLines ==
    {n \in 1..Len(RawLines) :
        \E k \in 1..Len(NormLines[n]) :
            /\ k + Len(CORP_TO_CORP) - 1 <= Len(NormLines[n])
            /\ \A j \in 1..Len(CORP_TO_CORP) :
                 NormLines[n][k + j - 1] = CORP_TO_CORP[j]}

\* the lines that are a valid term
ValidTermLines == {n \in 1..Len(RawLines) : NormLines[n] \in ClaimValidTerms}

\* the lines that are a W2-only term
W2OnlyLines == {n \in 1..Len(RawLines) : NormLines[n] \in ClaimW2Only}

\* the lines that are "full-time"
FullTimeLines == {n \in 1..Len(RawLines) : NormLines[n] = FULL_TIME}

HasLineIn(S) == \E i \in 1..Len(section.lines) : section.lines[i] \in S

ClaimHasC2C == HasLineIn(C2CLines)

ClaimHasValidTerm == HasLineIn(ValidTermLines)

ClaimIsW2Only == HasLineIn(W2OnlyLines)

\* the section with every line lower-cased and trimmed, as a text
NormText ==
    JoinLines([i \in 1..Len(section.lines) |-> NormLines[section.lines[i]]],
              LineSep)

\* check_eligibility has just returned
Checked ==
    /\ eligRet # "none"
    /\ pc \in {"apply_open", "finally"}
    /\ applyRet = "none"
    /\ failStage = "none"

\* C1: the verdict is Ineligible iff isW2Only and not (hasC2C or
\* hasValidTerm), the flags being taken over the lower-cased, trimmed lines
\* of the section; the section with its lines already lower-cased and
\* trimmed gets the same verdict
C1_Verdict ==
    Checked =>
        /\ (eligRet = "False") <=>
              (ClaimIsW2Only /\ ~(ClaimHasC2C \/ ClaimHasValidTerm))
        /\ eligRet = Bool(check_eligibility(Normalize(NormText)))

\* "Full-Time" then "remote" was classified Ineligible
C1_Witness ==
    /\ section.kind = "present"
    /\ section.lines = <<1, 4>>
    /\ eligRet = "False"

\* C5: a section with a W2-only line and a line containing "corp to corp"
\* is Eligible; so is "contract - w2", "remote", "corp to corp"
C5_C2COverrides ==
    /\ (Checked /\ ClaimIsW2Only /\ ClaimHasC2C) => eligRet = "True"
    /\ (Checked /\ section.lines = <<3, 4, 5>>) => eligRet = "True"

\* "Full-Time" with "remote" and " C2C / corp to corp ok" was classified
C5_Witness ==
    /\ section.kind = "present"
    /\ section.lines = <<6, 4, 1>>
    /\ eligRet = "True"

\* C6: with a line "full-time" and no line containing "corp to corp", the
\* verdict is Eligible iff some line equals a valid term
C6_ExactTerm ==
    (/\ Checked
     /\ HasLineIn(FullTimeLines)
     /\ ~ClaimHasC2C)
    => ((eligRet = "True") <=> ClaimHasValidTerm)

\* "Full-Time" with "Contract - 6 months" was classified Ineligible
C6_Witness ==
    /\ section.kind = "present"
    /\ section.lines = <<1, 8>>
    /\ eligRet = "False"

\* C7: when the section is absent or reading it raises, the check gets the
\* empty text, raises nothing, returns Eligible and the run goes on to the
\* apply flow
C7_PermissiveDefault ==
    [][(pc = "check" /\ section.kind # "present")
        => /\ overview' = <<>>
           /\ eligRet' = "True"
           /\ raised' = raised
           /\ summary' = summary
           /\ pc' = "apply_open"]_vars

\* the check ran on a page without the section
C7_Witness ==
    /\ section.kind = "absent"
    /\ eligRet = "True"
    /\ pc = "apply_open"

----------------------------------------------------------------------------
(* Properties of the application run *)

Exited == pc = "exited"

\* C2: a run that acquired a session has quit it exactly once when the
\* process exits, and no run quits twice
C2_ReleasedOnce ==
    /\ quits <= 1
    /\ driver = "live" => quits = 0
    /\ (Exited /\ driver # "none") => (driver = "quit" /\ quits = 1)

\* a run that went through main's except clause has exited
C2_Witness ==
    /\ Exited
    /\ caught
    /\ url = "job"
    /\ quits = 1

\* C3: exit status 0 iff apply_easy returned True, 2 iff the check returned
\* False, 1 iff login or apply_easy returned False or main's handler ran;
\* a requested status of 0 or 2 is the status the process exits with
C3_ExitStatus ==
    /\ [](Exited =>
            /\ (exitStatus = 0) <=> (applyRet = "True")
            /\ (exitStatus = 2) <=> (loginRet = "True" /\ eligRet = "False")
            /\ (exitStatus = 1) <=>
                  (loginRet = "False" \/ applyRet = "False" \/ caught))
    /\ [][(exitReq = 0 \/ exitReq = 2) =>
            (exitReq' = exitReq /\ (pc' = "exited" => exitStatus' = exitReq))]_vars

\* a skipped run has exited
C3_Witness ==
    /\ Exited
    /\ exitStatus = 2
    /\ quits = 1

\* the outcome the summary line of the run stands for
Outcome ==
    CASE summary = "SUCCESS: Applied" -> "Submitted"
      [] summary = "SKIPPED: Not eligible" -> "Skipped"
      [] summary = "FAILED: Login failed" -> "LoginFailed"
      [] summary = "FAILED: Could not apply" -> "ApplyFailed"
      [] summary = "FAILED: <exception>" -> "Error"
      [] OTHER -> "none"

\* C4 as stated: a run ends in Submitted, Skipped, LoginFailed or ApplyFailed
C4_FourOutcomes ==
    Exited => Outcome \in {"Submitted", "Skipped", "LoginFailed", "ApplyFailed"}

\* C4: every run exits, with one outcome among Submitted, Skipped,
\* LoginFailed, ApplyFailed and the failure reported by main's handler, and
\* an outcome once reported is never replaced
C4_Terminates ==
    /\ <>Exited
    /\ [](Exited => Outcome \in {"Submitted", "Skipped", "LoginFailed",
                                 "ApplyFailed", "Error"})
    /\ [][summary # "none" => summary' = summary]_vars

\* a run whose job page failed to load has exited
C4_Witness ==
    /\ Exited
    /\ Outcome = "Error"
    /\ loginRet = "True"
    /\ eligRet = "none"

\* what a run lets its caller see
Report == [status |-> exitStatus, summary |-> summary, log |-> applyLog]

\* the report of a run in which apply_easy raised e at the given stage
ReportOfFailure(stage, e) ==
    [status  |-> ExitOfApply("False"),
     summary |-> SummaryOfApply("False"),
     log     |-> e]

\* C10 as stated: the report of a run that failed at "open" differs from
\* every report of a run that failed at "submit_page" or "submit"
C10_StageReported ==
    (Exited /\ failStage = "open") =>
        \A s \in {"submit_page", "submit"} :
            \A e \in StageExceptions[s] : Report # ReportOfFailure(s, e)

\* C10: a run that failed at "open" ends as a failed application: apply_easy
\* returned False, the summary is "FAILED: Could not apply", the status is 1,
\* the session was quit once and nothing was submitted; the report carries
\* the exception only
C10_OpenFails ==
    (Exited /\ failStage = "open") =>
        /\ applyRet = "False"
        /\ Outcome = "ApplyFailed"
        /\ exitStatus = 1
        /\ quits = 1
        /\ clicks["submit"] = 0
        /\ \E e \in StageExceptions["open"] : Report = ReportOfFailure("open", e)

\* the apply button was clicked and the URL never reached "/apply"
C10_Witness ==
    /\ Exited
    /\ failStage = "open"
    /\ clicks["apply"] = 1
    /\ url = "job"

----------------------------------------------------------------------------
(* Properties of the discovery runs *)

\* the jobs of b whose url is not among the rows q, in the order of b
RECURSIVE ClaimNew(_, _)
ClaimNew(b, q) ==
    IF b = <<>> THEN <<>>
    ELSE (IF \E i \in 1..Len(q) : q[i].job_url = Head(b).job_url
          THEN <<>> ELSE <<Head(b)>>)
         \o ClaimNew(Tail(b), q)

URL_A == full_url(Hrefs["relA"])

URL_B == full_url(Hrefs["relB"])

\* C8: when save_to_job_queue returns, the queue is the queue it read
\* followed by the jobs of the batch whose url was not in it, in batch order
C8_AppendsNew ==
    \A w \in Writers :
        wpc[w] = "done" => queue = queue0[w] \o ClaimNew(batch[w], queue0[w])

\* the queue held A, the batch was A and B, and one row was appended
C8_Witness ==
    \E w \in Writers :
        /\ wpc[w] = "done"
        /\ Urls(queue0[w]) = {URL_A}
        /\ Urls(batch[w]) = {URL_A, URL_B}
        /\ Len(queue) = Len(queue0[w]) + 1
        /\ queue[Len(queue)].job_url = URL_B

\* C9: no two rows of the queue have the same job_url
C9_UniqueUrls ==
    \A i, j \in 1..Len(queue) :
        queue[i].job_url = queue[j].job_url => i = j

\* a second run scraped A twice while A was in the queue
C9_Witness ==
    \E w \in Writers :
        /\ wpc[w] = "done"
        /\ runs = 2
        /\ URL_A \in Urls(queue0[w])
        /\ \E i, j \in 1..Len(all_jobs[w]) :
             /\ i < j
             /\ all_jobs[w][i].job_url = URL_A
             /\ all_jobs[w][j].job_url = URL_A
             /\ all_jobs[w][i].keyword # all_jobs[w][j].keyword

----------------------------------------------------------------------------
(* the optional Next step of the apply flow *)

\* the Next control did not become clickable in time, or its click raised
NextSkipped == nextWait \in {"timeout", "click_error"}

\* C11: when the optional Next control never becomes clickable within its
\* timeout, or clicking it raises, the run does not fail at that step: the
\* step records no failure and no return value, and the flow always goes on
\* to the wait for the URL to contain "/apply/submit"
C11_NextOptional ==
    [][(pc = "step_next" /\ NextSkipped')
         => /\ pc' = "submit_url"
            /\ applyRet' = "none"
            /\ failStage' = "none"
            /\ applyLog' = "none"
            /\ raised' = raised]_vars

\* a run in which the Next control timed out and that ended in Submitted
C11_Witness ==
    /\ Exited
    /\ nextWait = "timeout"
    /\ Outcome = "Submitted"
    /\ clicks["next"] = 0

----------------------------------------------------------------------------
(* the login stage *)

\* C12: every run that ends in LoginFailed has captured a diagnostic
\* screenshot before it terminates, whether the URL after sign-in was not
\* accepted or a wait inside login timed out or raised
C12_ScreenshotOnLoginFailed ==
    (Exited /\ Outcome = "LoginFailed") => screenshot

\* a run that ended in LoginFailed through login's handler, with no screenshot
C12_HandlerNoScreenshot ==
    /\ Exited
    /\ Outcome = "LoginFailed"
    /\ clicks["signin"] = 0
    /\ ~screenshot

----------------------------------------------------------------------------
(* where the failures of UI and navigation interactions are handled *)

\* an exception reached the handler of main
ReachedMain == pc = "except" \/ caught

\* the browser session was acquired: the failure is not one of init_driver
SessionAcquired == driver # "none"

\* C13: every failure of a UI or navigation interaction of the pipeline is
\* caught inside the component where it occurs and mapped to the nearest
\* terminal state: no exception of an interaction reaches main's handler, a
\* run that did not get through login ends in LoginFailed, and a run that
\* reached the apply flow ends in Submitted or ApplyFailed
C13_CaughtInComponent ==
    /\ SessionAcquired => ~ReachedMain
    /\ (Exited /\ SessionAcquired /\ loginRet # "True")
          => Outcome = "LoginFailed"
    /\ (Exited /\ eligRet = "True")
          => Outcome \in {"Submitted", "ApplyFailed"}

\* loading the login page raised: the exception left login and reached
\* main's handler, and the run ended with the generic failure
C13_LoginGetEscapes ==
    /\ Exited
    /\ SessionAcquired
    /\ caught
    /\ url = "blank"
    /\ loginRet = "none"
    /\ Outcome = "Error"

----------------------------------------------------------------------------
(* Properties of the scraping loop *)

\* s is an initial segment of t
IsPrefix(s, t) == Len(s) <= Len(t) /\ SubSeq(t, 1, Len(s)) = s

\* the step is a fetch of writer w that raised
FetchFailed(w) ==
    /\ wpc[w] = "page"
    /\ page[w] \notin failed[w]
    /\ failed'[w] = failed[w] \cup {page[w]}

\* C14: an error while fetching or parsing page p does not abort the run:
\* the loop goes on with page p + 1 of the same filter, pages are fetched in
\* order up to max_pages for every filter with a keyword, the later filters
\* stay to be scraped, and the jobs collected before and after the failing
\* page are all returned and added to the batch
C14_ErrorSkipsPage ==
    [][\A w \in Writers :
         /\ FetchFailed(w)
              => /\ page'[w] = page[w] + 1
                 /\ wpc'[w] = "page"
                 /\ scraped'[w] = scraped[w]
                 /\ all_jobs'[w] = all_jobs[w]
                 /\ filters'[w] = filters[w]
         /\ (wpc[w] = "page" /\ page'[w] # page[w])
              => /\ page'[w] = page[w] + 1
                 /\ page[w] <= max_pages
                 /\ IsPrefix(scraped[w], scraped'[w])
         /\ (wpc[w] = "filter" /\ wpc'[w] = "page") => page'[w] = 1
         /\ (wpc[w] = "page" /\ wpc'[w] = "filter")
              => /\ page[w] = max_pages + 1
                 /\ all_jobs'[w] = all_jobs[w] \o scraped[w]
                 /\ filters'[w] = Tail(filters[w])]_vars

\* the first page of a later filter failed; the jobs of the earlier filter
\* and of the pages after the failing one are about to be returned
C14_Witness ==
    \E w \in Writers :
        /\ wpc[w] = "page"
        /\ page[w] = max_pages + 1
        /\ 1 \in failed[w]
        /\ scraped[w] # <<>>
        /\ all_jobs[w] # <<>>
        /\ Len(filters[w]) = 1

----------------------------------------------------------------------------
(* What a discovery run does to the rows already queued *)

\* C15: a discovery run never changes a record already in the queue: every
\* step leaves each queued row as it is (url, title, keyword, discovery
\* time and status) and at its position, removes none, and only appends
\* rows, which carry the initial status "Pending"
C15_QueuedRowsKept ==
    [][/\ IsPrefix(queue, queue')
       /\ \A i \in (Len(queue) + 1)..Len(queue') :
            queue'[i].status = "Pending"]_vars

\* a run appended a row behind a row with status "Applied" whose url it
\* had scraped again
C15_Witness ==
    \E w \in Writers :
        /\ wpc[w] = "done"
        /\ Len(queue) > Len(queue0[w])
        /\ queue0[w] # <<>>
        /\ queue[1].status = "Applied"
        /\ queue[1].job_url \in Urls(batch[w])

----------------------------------------------------------------------------
(* The return value of login *)

\* the Sign In click was dispatched and the browser is still on the login
\* page
StillOnLoginPage == clicks["signin"] = 1 /\ url = "login"

\* C16: login returns success only when the login flow reached an
\* authenticated URL: when the browser is still on the login page after the
\* Sign In click, login returns failure and the run ends in LoginFailed
\* without loading the job page
C16_LoginPageFails ==
    /\ (pc = "login_done" /\ StillOnLoginPage) => loginRet = "False"
    /\ (Exited /\ StillOnLoginPage) => Outcome = "LoginFailed"
    /\ loginRet = "False" => url \notin {"job", "apply", "apply_submit"}

\* login returned True with the browser still on the login page
C16_LoginPageAccepted ==
    /\ pc = "login_done"
    /\ StillOnLoginPage
    /\ loginRet = "True"

----------------------------------------------------------------------------
(* The order of the stages of an application run *)

\* the job page, or a page of its apply wizard, is loaded
OnJobPage == url \in {"job", "apply", "apply_submit"}

\* a control of the apply wizard was clicked
ApplyDispatched ==
    clicks["apply"] > 0 \/ clicks["next"] > 0 \/ clicks["submit"] > 0

\* C17: the stages run in a fixed order: nothing is loaded or checked before
\* login has returned, the job page is loaded only after login returned
\* success, the eligibility check runs only on the loaded job page, and the
\* apply control is triggered only after the check returned Eligible; a run
\* that ends in LoginFailed or Skipped dispatched no apply or submit click
C17_StageOrder ==
    /\ loginRet = "none" => (~OnJobPage /\ eligRet = "none" /\ applyRet = "none")
    /\ OnJobPage => loginRet = "True"
    /\ eligRet # "none" => OnJobPage
    /\ ApplyDispatched => eligRet = "True"
    /\ applyRet # "none" => eligRet = "True"
    /\ (Exited /\ Outcome \in {"LoginFailed", "Skipped"}) => ~ApplyDispatched

\* a run that logged in, loaded the job page, found it not eligible and
\* ended in Skipped
C17_Witness ==
    /\ Exited
    /\ Outcome = "Skipped"
    /\ loginRet = "True"
    /\ url = "job"
    /\ eligRet = "False"
    /\ ~ApplyDispatched

----------------------------------------------------------------------------
(* No stage is retried *)

\* C18: no stage is retried within a run: each control of the login form
\* and of the apply wizard (Continue, Sign In, the apply control, the
\* optional Next, the final Submit) is clicked at most once, login and
\* apply_easy return at most once, so a run never submits twice; the Submit
\* click is dispatched only after the URL was seen to contain "/apply/submit"
C18_NoRetry ==
    /\ \A c \in Controls : clicks[c] <= 1
    /\ clicks["submit"] = 1 => url_contains(url, APPLY_SUBMIT)
    /\ clicks["submit"] = 1 => clicks["apply"] = 1
    /\ applyRet = "True" => clicks["submit"] = 1

\* a run that clicked every control once and ended in Submitted
C18_Witness ==
    /\ Exited
    /\ Outcome = "Submitted"
    /\ \A c \in Controls : clicks[c] = 1
    /\ url = "apply_submit"

----------------------------------------------------------------------------
(* Which waits of the apply flow are hard failure points *)

\* a timed wait of apply_easy timed out and ended the flow
ApplyTimedOut == applyRet = "False" /\ applyLog = "Timeout"

\* the wait that timed out was one of the two waits on a URL segment: the
\* apply control had been clicked and "/apply" did not show up, or
\* "/apply/submit" did not show up
UrlWaitTimedOut ==
    \/ failStage = "open" /\ clicks["apply"] = 1
    \/ failStage = "submit_page"

\* C19 as stated: the only timed waits whose timeout ends the run in a
\* failure terminal are the two waits on a URL segment; the timeout of a
\* wait on a control becoming clickable is not a hard failure point
C19_OnlyUrlWaits == ApplyTimedOut => UrlWaitTimedOut

\* C19 as amended: the only timed wait of the apply flow whose timeout does
\* not end the run in a failure is the wait for the optional Next control;
\* the flow gets past the wait for the apply control and past the wait for
\* the Submit control only with the control clicked, and a timeout of
\* either of them, like a timeout of the two URL waits, ends the run in
\* ApplyFailed
C19_HardWaits ==
    /\ pc \in {"apply_url", "step_next", "submit_url", "submit"}
         => clicks["apply"] = 1
    /\ applyRet = "True" => (clicks["apply"] = 1 /\ clicks["submit"] = 1)
    /\ (pc = "submit_url" /\ NextSkipped)
         => (applyRet = "none" /\ applyLog = "none")
    /\ applyLog = "Timeout"
         => (applyRet = "False" /\ failStage \in {"open", "submit_page", "submit"})
    /\ (Exited /\ ApplyTimedOut) => (Outcome = "ApplyFailed" /\ exitStatus = 1)

\* the Next wait timed out and the flow went on; then the wait for the
\* Submit control timed out on the submit page and the run ended in
\* ApplyFailed
C19_Witness ==
    /\ Exited
    /\ nextWait = "timeout"
    /\ url = "apply_submit"
    /\ failStage = "submit"
    /\ applyLog = "Timeout"
    /\ clicks["submit"] = 0
    /\ Outcome = "ApplyFailed"

----------------------------------------------------------------------------
(* Two discovery runs saving at once *)

\* the positions of two rows of the queue with the same url
DupPairs ==
    {p \in (1..Len(queue)) \X (1..Len(queue)) :
        p[1] < p[2] /\ queue[p[1]].job_url = queue[p[2]].job_url}

\* run w has read the sheet, and the sheet did not hold url u then
ReadWithout(w, u) == wpc[w] \in {"append", "done"} /\ u \notin existing[w]

\* C20: the dedup of save_to_job_queue is a read followed by appends, not
\* one atomic step: with two runs saving at once the queue can get two rows
\* with one url, and it gets them only through the interleaving in which
\* both runs read the sheet before either had appended that url; each run
\* appends what it found new at its read, whatever was appended since
C20_DupOnlyByOverlap ==
    /\ \A p \in DupPairs :
          \A w \in Writers : ReadWithout(w, queue[p[1]].job_url)
    /\ \A w \in Writers :
          wpc[w] \in {"append", "done"}
            => /\ Urls(new_jobs[w]) \cap existing[w] = {}
               /\ IsPrefix(queue0[w], queue)

\* both runs are over and the queue holds two rows with one url, appended
\* by the two runs
C20_Witness ==
    /\ \A w \in Writers : wpc[w] = "done"
    /\ \E p \in DupPairs :
          queue[p[1]].discovered_at # queue[p[2]].discovered_at

====
